---------------------------- MODULE Spec2Model ----------------------------
(***************************************************************************)
(* Model of the ST-LINK GDB server runner                                  *)
(* (scripts/west_commands/runners/stlink_gdbserver.py).                    *)
(*                                                                         *)
(* One invocation of do_run is a sequential process whose position is pc.  *)
(* Texts (argv elements, f-strings, paths) are sequences of string pieces: *)
(* an f-string is the sequence of its literal and interpolated pieces, a   *)
(* path is the sequence of its components.  Strings that the code parses   *)
(* (directory names, the entry-point field, the SoC series) are sequences  *)
(* of one-character strings.                                               *)
(***************************************************************************)
EXTENDS Integers, Sequences, FiniteSets, TLC

VARIABLES
    command,            \* argument of do_run
    self,               \* the runner's fields set by __init__
    cfg,                \* RunnerConfig: elf_file, build_dir, gdb
    host,               \* platform, executable search path, tools folder
    pc,                 \* position in do_run / do_attach_debug_debugserver
    error,              \* the exception that ended the invocation
    readelf_out,        \* what arm-none-eabi-readelf -h produced
    soc,                \* local soc
    start_address,      \* local start_address
    is_fsbl,            \* local is_fsbl
    is_ram,             \* local is_ram
    gdb_args,           \* local gdb_args
    gdbserver_cmd,      \* local gdbserver_cmd
    gdbserver_path,     \* first element returned by _get_stm32cubeclt_paths
    cubeprg_path,       \* second element returned by _get_stm32cubeclt_paths
    search_path,        \* local search_path / tool_suffix of the locator
    installations,      \* local installations of find_highest_clt_version
    scan_i,             \* position of the iterdir() loop
    spawned,            \* processes started so far, in order
    exit_status         \* exit status propagated by the invocation

vars == <<command, self, cfg, host, pc, error, readelf_out, soc, start_address,
          is_fsbl, is_ram, gdb_args, gdbserver_cmd, gdbserver_path, cubeprg_path,
          search_path, installations, scan_i, spawned, exit_status>>

-----------------------------------------------------------------------------
(* Program constants *)

STLINK_GDB_SERVER_DEFAULT_PORT == 61234

\* 0x34180000
FSBL_BASE == 873988096

\* 0x34000000
RAM_BASE == 872415232

\* 0x10000: a & 0xFFFF0000 clears the low 16 bits of a 32-bit address
LOW_HALF == 65536

\* ver_num = major * 1000000 + minor * 1000 + revis
MAJOR_WEIGHT == 1000000

MINOR_WEIGHT == 1000

\* soc_series[:7]
SOC_FAMILY_LEN == 7

(* Bounds of the model *)

\* longest listing of the tools folder
MaxInstalls == 2

-----------------------------------------------------------------------------
(* Texts *)

None == <<>>

NoError == [exc |-> "none", msg |-> ""]

Raise(exc, msg) == [exc |-> exc, msg |-> msg]

Digits == {"0", "1", "2", "3", "4", "5", "6", "7", "8", "9"}

DigitVal(c) ==
    CASE c = "0" -> 0 [] c = "1" -> 1 [] c = "2" -> 2 [] c = "3" -> 3
      [] c = "4" -> 4 [] c = "5" -> 5 [] c = "6" -> 6 [] c = "7" -> 7
      [] c = "8" -> 8 [] c = "9" -> 9

HexDigits == Digits \cup {"a", "b", "c", "d", "e", "f", "A", "B", "C", "D", "E", "F"}

HexVal(c) ==
    CASE c \in Digits -> DigitVal(c)
      [] c \in {"a", "A"} -> 10 [] c \in {"b", "B"} -> 11
      [] c \in {"c", "C"} -> 12 [] c \in {"d", "D"} -> 13
      [] c \in {"e", "E"} -> 14 [] c \in {"f", "F"} -> 15

\* int(s) of a string of decimal digits
RECURSIVE DecInt(_)
DecInt(s) ==
    IF s = <<>> THEN 0
    ELSE DecInt(SubSeq(s, 1, Len(s) - 1)) * 10 + DigitVal(s[Len(s)])

\* int(s, 16) of a string of hexadecimal digits (the 0x prefix already read)
RECURSIVE HexInt(_)
HexInt(s) ==
    IF s = <<>> THEN 0
    ELSE HexInt(SubSeq(s, 1, Len(s) - 1)) * 16 + HexVal(s[Len(s)])

\* length of the run of decimal digits of s that starts at position i
RECURSIVE DigitRun(_, _)
DigitRun(s, i) ==
    IF i > Len(s) \/ s[i] \notin Digits THEN 0 ELSE 1 + DigitRun(s, i + 1)

Max(S) == CHOOSE x \in S : \A y \in S : y <= x

Parent(path) == SubSeq(path, 1, Len(path) - 1)


Text(s) == <<s>>

Chars_unknown == <<"u", "n", "k", "n", "o", "w", "n">>

Chars_STM32 == <<"S", "T", "M", "3", "2">>

Chars_STM32N6 == <<"S", "T", "M", "3", "2", "N", "6">>

StartsWith(s, p) == Len(s) >= Len(p) /\ SubSeq(s, 1, Len(p)) = p

-----------------------------------------------------------------------------
(* Toolchain locator: _get_stm32cubeclt_paths *)

\* The names met in the tools folder, spelled: the part up to and including
\* the underscore, and the characters after it.
Spelling(name) ==
    CASE name = "stm32cubeclt_1.9.9" ->
            [prefix |-> "stm32cubeclt_", rest |-> <<"1", ".", "9", ".", "9">>]
      [] name = "stm32cubeclt_2.0.99" ->
            [prefix |-> "stm32cubeclt_", rest |-> <<"2", ".", "0", ".", "9", "9">>]
      [] name = "stm32cubeclt_2.1.0" ->
            [prefix |-> "stm32cubeclt_", rest |-> <<"2", ".", "1", ".", "0">>]
      [] name = "STM32CubeCLT_1.16.0" ->
            [prefix |-> "STM32CubeCLT_", rest |-> <<"1", ".", "1", "6", ".", "0">>]
      [] name = "stm32cubeclt_1.2000.0" ->
            [prefix |-> "stm32cubeclt_", rest |-> <<"1", ".", "2", "0", "0", "0", ".", "0">>]
      [] name = "stm32cubeclt_2.0.0" ->
            [prefix |-> "stm32cubeclt_", rest |-> <<"2", ".", "0", ".", "0">>]
      [] name = "stm32cubeclt_10.1.0" ->
            [prefix |-> "stm32cubeclt_", rest |-> <<"1", "0", ".", "1", ".", "0">>]
      [] name = "stm32cubeide_1.9.0" ->
            [prefix |-> "stm32cubeide_", rest |-> <<"1", ".", "9", ".", "0">>]

FolderNames ==
    {"stm32cubeclt_1.9.9", "stm32cubeclt_2.0.99", "stm32cubeclt_2.1.0",
     "STM32CubeCLT_1.16.0", "stm32cubeclt_1.2000.0", "stm32cubeclt_2.0.0",
     "stm32cubeclt_10.1.0", "stm32cubeide_1.9.0"}

\* re.IGNORECASE on the literal part of the pattern
Lower(prefix) ==
    IF prefix = "STM32CubeCLT_" THEN "stm32cubeclt_" ELSE prefix

\* CUBECLT_FLDR_RE.match(f.name): None, or the groups m[1], m[2], m[3].
\* The pattern is anchored at the start only; "." matches any character and
\* (\d+) is greedy, giving back digits until the rest of the pattern matches.
CUBECLT_FLDR_RE_match(name) ==
    LET s == Spelling(name).rest
        run == DigitRun(s, 3)
        fits == {n \in 1..run : 3 + n <= Len(s) /\ DigitRun(s, 4 + n) >= 1}
        n == Max(fits)
    IN  IF /\ Lower(Spelling(name).prefix) = "stm32cubeclt_"
           /\ Len(s) >= 2
           /\ s[1] \in Digits \ {"0"}
           /\ fits # {}
        THEN << <<s[1]>>, SubSeq(s, 3, 2 + n),
                SubSeq(s, 4 + n, 3 + n + DigitRun(s, 4 + n)) >>
        ELSE None

\* ver_num = major * 1000000 + minor * 1000 + revis
ver_num(m) ==
    DecInt(m[1]) * MAJOR_WEIGHT + DecInt(m[2]) * MINOR_WEIGHT + DecInt(m[3])

\* sorted(installations, key=lambda e: e[0], reverse=True): stable, so among
\* equal keys the order of the list is kept
RECURSIVE sorted_reverse(_)
sorted_reverse(list) ==
    IF list = <<>> THEN <<>>
    ELSE LET top == Max({list[i][1] : i \in DOMAIN list})
             k == CHOOSE i \in DOMAIN list :
                      /\ list[i][1] = top
                      /\ \A j \in 1..(i - 1) : list[j][1] # top
         IN  <<list[k]>> \o
             sorted_reverse(SubSeq(list, 1, k - 1) \o SubSeq(list, k + 1, Len(list)))

\* the OS-specific search path and tool suffix, None for an unsupported OS
os_search_path(platform) ==
    CASE platform = "Linux" -> [dir |-> <<"/", "opt", "st">>, tool_suffix |-> ""]
      [] platform = "Windows" -> [dir |-> <<"C:", "ST">>, tool_suffix |-> ".exe"]
      [] platform = "Darwin" -> [dir |-> <<"/", "opt", "ST">>, tool_suffix |-> ""]
      [] OTHER -> [dir |-> None, tool_suffix |-> ""]

gdbserver_exe(tool_suffix) ==
    IF tool_suffix = ".exe" THEN "ST-LINK_gdbserver.exe" ELSE "ST-LINK_gdbserver"

LocalsUnchanged ==
    UNCHANGED <<command, self, cfg, host, readelf_out, soc, start_address, is_fsbl,
                is_ram, gdb_args, gdbserver_cmd, spawned, exit_status>>

\* lines 54-81: the search through shutil.which, then the choice of the
\* search path and the entry into find_highest_clt_version
LocateWhich ==
    /\ pc = "locate"
    /\ LocalsUnchanged
    /\ IF /\ host.platform \in {"Linux", "Windows"}
          /\ host.which_gdbserv # None
          /\ host.which_cubeprg # None
       THEN /\ gdbserver_path' = host.which_gdbserv
            /\ cubeprg_path' = Parent(host.which_cubeprg)
            /\ pc' = "located"
            /\ UNCHANGED <<error, search_path, installations, scan_i>>
       ELSE IF os_search_path(host.platform).dir = None
       THEN /\ error' = Raise("RuntimeError", "Unsupported OS")
            /\ pc' = "raised"
            /\ UNCHANGED <<gdbserver_path, cubeprg_path, search_path,
                           installations, scan_i>>
       ELSE IF ~host.tools_is_dir
       THEN /\ error' = Raise("MissingProgram", "ST-LINK_gdbserver (from STM32CubeCLT)")
            /\ pc' = "raised"
            /\ search_path' = os_search_path(host.platform)
            /\ UNCHANGED <<gdbserver_path, cubeprg_path, installations, scan_i>>
       ELSE /\ search_path' = os_search_path(host.platform)
            /\ installations' = <<>>
            /\ scan_i' = 1
            /\ pc' = "scan"
            /\ UNCHANGED <<error, gdbserver_path, cubeprg_path>>

\* lines 38-45: one iteration of the loop over tools_folder.iterdir()
ScanStep ==
    /\ pc = "scan"
    /\ scan_i <= Len(host.tools_entries)
    /\ LocalsUnchanged
    /\ LET f == host.tools_entries[scan_i]
           m == CUBECLT_FLDR_RE_match(f)
       IN  installations' =
               IF m # None THEN Append(installations, <<ver_num(m), f>>)
               ELSE installations
    /\ scan_i' = scan_i + 1
    /\ UNCHANGED <<pc, error, gdbserver_path, cubeprg_path, search_path>>

\* lines 47-52 and 79-86: the choice of the most recent installation and the
\* two paths derived from it
ScanDone ==
    /\ pc = "scan"
    /\ scan_i > Len(host.tools_entries)
    /\ LocalsUnchanged
    /\ IF Len(installations) = 0
       THEN /\ error' = Raise("MissingProgram", "ST-LINK_gdbserver (from STM32CubeCLT)")
            /\ pc' = "raised"
            /\ UNCHANGED <<gdbserver_path, cubeprg_path>>
       ELSE LET most_recent_install == sorted_reverse(installations)[1]
                clt == Append(search_path.dir, most_recent_install[2])
            IN  /\ gdbserver_path' =
                       clt \o <<"STLink-gdb-server", "bin",
                                gdbserver_exe(search_path.tool_suffix)>>
                /\ cubeprg_path' = clt \o <<"STM32CubeProgrammer", "bin">>
                /\ pc' = "located"
                /\ UNCHANGED error
    /\ UNCHANGED <<search_path, installations, scan_i>>

-----------------------------------------------------------------------------
(* Detection of the SoC and of the execution mode *)

\* Lines of zephyr/.config: what the line starts with, the characters that
\* follow up to "=", and the value after "=".
ConfigLine(start, name, value) == [start |-> start, name |-> name, value |-> value]

Line_N6X_y ==
    ConfigLine("CONFIG_SOC_SERIES_", <<"S", "T", "M", "3", "2", "N", "6", "X">>, "y")

Line_F4X_y ==
    ConfigLine("CONFIG_SOC_SERIES_", <<"S", "T", "M", "3", "2", "F", "4", "X">>, "y")

Line_N6X_unset ==
    ConfigLine("# CONFIG_SOC_SERIES_", <<"S", "T", "M", "3", "2", "N", "6", "X">>, "")

Line_NRF_y ==
    ConfigLine("CONFIG_SOC_SERIES_", <<"N", "R", "F", "5", "2", "X">>, "y")

ConfigFiles ==
    {[exists |-> FALSE, readable |-> FALSE, lines |-> <<>>],
     [exists |-> TRUE, readable |-> FALSE, lines |-> <<>>],
     [exists |-> TRUE, readable |-> TRUE, lines |-> <<>>],
     [exists |-> TRUE, readable |-> TRUE, lines |-> <<Line_N6X_y>>],
     [exists |-> TRUE, readable |-> TRUE, lines |-> <<Line_NRF_y, Line_F4X_y>>],
     [exists |-> TRUE, readable |-> TRUE, lines |-> <<Line_N6X_unset, Line_F4X_y>>]}

\* _get_stm32_soc: the first 7 characters of the first enabled
\* CONFIG_SOC_SERIES_STM32* key, or 'unknown'
RECURSIVE first_soc_series(_)
first_soc_series(lines) ==
    IF lines = <<>> THEN Chars_unknown
    ELSE LET line == Head(lines)
         IN  IF /\ line.start = "CONFIG_SOC_SERIES_"
                /\ StartsWith(line.name, Chars_STM32)
                /\ line.value = "y"
             THEN SubSeq(line.name, 1,
                         IF Len(line.name) < SOC_FAMILY_LEN THEN Len(line.name)
                         ELSE SOC_FAMILY_LEN)
             ELSE first_soc_series(Tail(lines))

get_stm32_soc(config_file) ==
    IF ~config_file.exists THEN Chars_unknown
    ELSE IF ~config_file.readable THEN Chars_unknown
    ELSE first_soc_series(config_file.lines)

\* What readelf -h gives: whether the call succeeded, whether a line holds
\* 'Entry point address', and the field after "0x".
Readelf(ok, has_entry, field) == [ok |-> ok, has_entry |-> has_entry, field |-> field]

EntryFields ==
    {<<"0", "0", "0", "0", "0", "0", "0", "0">>,
     <<"0", "8", "0", "4", "0", "0", "0", "0">>,
     <<"3", "3", "f", "f", "f", "f", "f", "f">>,
     <<"3", "4", "0", "0", "0", "0", "0", "0">>,
     <<"3", "4", "1", "7", "f", "f", "f", "f">>,
     <<"3", "4", "1", "8", "0", "0", "0", "0">>,
     <<"3", "4", "1", "8", "5", "0", "0", "0">>,
     <<"3", "4", "1", "8", "F", "F", "F", "F">>,
     <<"3", "4", "1", "9", "0", "0", "0", "0">>,
     <<"7", "0", "1", "0", "0", "4", "0", "0">>}

ReadelfOutputs ==
    {Readelf(FALSE, FALSE, <<>>), Readelf(TRUE, FALSE, <<>>),
     Readelf(TRUE, TRUE, <<"z">>)}
    \cup {Readelf(TRUE, TRUE, f) : f \in EntryFields}

\* _get_start_address: int(addr_str, 16) of the entry-point field; 0 when the
\* call fails, no line holds the field, or the field is no number
get_start_address(out) ==
    IF ~out.ok THEN 0
    ELSE IF ~out.has_entry THEN 0
    ELSE IF out.field = <<>> \/ \E i \in DOMAIN out.field : out.field[i] \notin HexDigits
    THEN 0
    ELSE HexInt(out.field)

\* a mask of 0xFFF00000 in place of 0xFFFF0000
is_fsbl_mode_mask20(address) == address - (address % (16 * LOW_HALF)) = FSBL_BASE

\* _is_fsbl_mode: (start_address & 0xFFFF0000) == 0x34180000
is_fsbl_mode(address) == address - (address % LOW_HALF) = FSBL_BASE

\* an upper limit that is included
is_ram_mode_inclusive(address) == RAM_BASE <= address /\ address <= FSBL_BASE

\* _is_ram_mode: 0x34000000 <= start_address < 0x34180000
is_ram_mode(address) == RAM_BASE <= address /\ address < FSBL_BASE

\* do_run: only attach, debug and debugserver are supported
DoRun ==
    /\ pc = "do_run"
    /\ IF command \in {"attach", "debug", "debugserver"}
       THEN pc' = "detect" /\ UNCHANGED error
       ELSE pc' = "raised" /\ error' = Raise("ValueError", "not supported")
    /\ UNCHANGED <<command, self, cfg, host, readelf_out, soc, start_address, is_fsbl,
                   is_ram, gdb_args, gdbserver_cmd, gdbserver_path, cubeprg_path,
                   search_path, installations, scan_i, spawned, exit_status>>

\* lines 303-314: elf_path, soc, start_address, is_fsbl, is_ram, gdb_args
Detect ==
    /\ pc = "detect"
    /\ \E config_file \in ConfigFiles, out \in ReadelfOutputs :
          /\ soc' = get_stm32_soc(config_file)
          /\ readelf_out' = out
          /\ start_address' = get_start_address(out)
          /\ is_fsbl' = is_fsbl_mode(get_start_address(out))
          /\ is_ram' = is_ram_mode(get_start_address(out))
    /\ gdb_args' = <<Text("-ex"), <<"target remote :", ToString(self.gdb_port)>>,
                     cfg.elf_file>>
    /\ pc' = "locate"
    /\ UNCHANGED <<command, self, cfg, host, error, gdbserver_cmd, gdbserver_path,
                   cubeprg_path, search_path, installations, scan_i, spawned,
                   exit_status>>

-----------------------------------------------------------------------------
(* The command plan: lines 316-369 *)

\* lines 317-324: the arguments every server invocation gets
gdbserver_base(me, server_path, programmer_path) ==
    << server_path,
       Text("--stm32cubeprogrammer-path"), programmer_path,
       Text("--port-number"), Text(ToString(me.gdb_port)),
       Text("--apid"), Text(ToString(me.ap_id)),
       Text("--halt") >>
    \o (IF me.swd THEN <<Text("--swd")>> ELSE <<>>)

\* the two boot stage branch taken on the --two-boot-stage option (line 331)
plan_branch_by_option(cmd, fsbl, ram, family) ==
    IF cmd = "attach" THEN "attach"
    ELSE IF self.two_boot_stage /\ cmd = "debug" THEN "chained"
    ELSE "direct"

\* the two boot stage branch tested before the attach branch
plan_branch_chained_first(cmd, fsbl, ram, family) ==
    IF ~fsbl /\ ~ram /\ family = Chars_STM32N6 THEN "chained"
    ELSE IF cmd = "attach" THEN "attach"
    ELSE "direct"

\* lines 326, 330, 355: which branch of the plan is taken
plan_branch(cmd, fsbl, ram, family) ==
    IF cmd = "attach" THEN "attach"
    ELSE IF ~fsbl /\ ~ram /\ family = Chars_STM32N6 THEN "chained"
    ELSE "direct"

\* the two places _find_mcuboot_elf looks at
mcuboot_elf_path(build_dir) == build_dir \o <<"mcuboot", "zephyr", "zephyr.elf">>

mcuboot_elf_alt_path(build_dir) ==
    Parent(build_dir) \o <<"mcuboot", "zephyr", "zephyr.elf">>

\* _find_mcuboot_elf: the path found, None when the RuntimeError is raised
find_mcuboot_elf(files, build_dir) ==
    IF mcuboot_elf_path(build_dir) \in files THEN mcuboot_elf_path(build_dir)
    ELSE IF mcuboot_elf_alt_path(build_dir) \in files THEN mcuboot_elf_alt_path(build_dir)
    ELSE None

\* lines 342-353: the debugger arguments of the two boot stage branch
chained_gdb_args(me, elf_path, mcuboot_elf) ==
    << Text("-ex"), <<"target remote :", ToString(me.gdb_port)>>,
       Text("-ex"), Text("load"),
       Text("-ex"), Text("hbreak boot_go"),
       Text("-ex"), Text("continue"),
       Text("-ex"), Text("set confirm off"),
       Text("-ex"), <<"add-symbol-file ">> \o elf_path,
       Text("-ex"), Text("set confirm on"),
       Text("-ex"), Text("break main"),
       Text("-ex"), Text("continue"),
       mcuboot_elf >>

\* line 357: gdb_args += ["-ex", f"load {elf_path}"]
direct_gdb_args(args, elf_path) == args \o <<Text("-ex"), <<"load ">> \o elf_path>>

\* the build trees the invocation may meet: which MCUboot ELF files exist
BuildTrees(build_dir) ==
    SUBSET {mcuboot_elf_path(build_dir), mcuboot_elf_alt_path(build_dir)}

\* lines 316-357: the server command and the branch on command, mode and SoC
Plan ==
    /\ pc = "located"
    /\ \E files \in BuildTrees(cfg.build_dir) :
          LET base == gdbserver_base(self, gdbserver_path, cubeprg_path)
              branch == plan_branch(command, is_fsbl, is_ram, soc)
              mcuboot_elf == find_mcuboot_elf(files, cfg.build_dir)
          IN  CASE branch = "attach" ->
                     /\ gdbserver_cmd' = Append(base, Text("--attach"))
                     /\ pc' = "options"
                     /\ UNCHANGED <<gdb_args, error>>
                [] branch = "chained" /\ mcuboot_elf = None ->
                     /\ gdbserver_cmd' = Append(base, Text("--attach"))
                     /\ error' = Raise("RuntimeError", "MCUboot ELF not found")
                     /\ pc' = "raised"
                     /\ UNCHANGED gdb_args
                [] branch = "chained" /\ mcuboot_elf # None ->
                     /\ gdbserver_cmd' = Append(base, Text("--attach"))
                     /\ gdb_args' = chained_gdb_args(self, cfg.elf_file, mcuboot_elf)
                     /\ pc' = "options"
                     /\ UNCHANGED error
                [] branch = "direct" ->
                     /\ gdbserver_cmd' = Append(base, Text("--initialize-reset"))
                     /\ gdb_args' = direct_gdb_args(gdb_args, cfg.elf_file)
                     /\ pc' = "options"
                     /\ UNCHANGED error
    /\ UNCHANGED <<command, self, cfg, host, readelf_out, soc, start_address, is_fsbl,
                   is_ram, gdbserver_path, cubeprg_path, search_path, installations,
                   scan_i, spawned, exit_status>>

\* lines 359-369: the probe serial number and the external loader
Options ==
    /\ pc = "options"
    /\ LET with_serial ==
               IF self.stlink_serial # None
               THEN gdbserver_cmd \o <<Text("--serial-number"), self.stlink_serial>>
               ELSE gdbserver_cmd
           extldr_path == cubeprg_path \o <<"ExternalLoader">> \o self.external_loader
       IN  IF self.external_loader = None
           THEN /\ gdbserver_cmd' = with_serial
                /\ pc' = "require"
                /\ UNCHANGED error
           ELSE \E extldr_exists \in BOOLEAN :
                   IF ~extldr_exists
                   THEN /\ gdbserver_cmd' = with_serial
                        /\ error' = Raise("RuntimeError", "External loader does not exist")
                        /\ pc' = "raised"
                   ELSE /\ gdbserver_cmd' =
                               with_serial
                               \o (IF self.do_external_init
                                   THEN <<Text("--external-init")>> ELSE <<>>)
                               \o <<Text("--extload"), extldr_path>>
                        /\ pc' = "require"
                        /\ UNCHANGED error
    /\ UNCHANGED <<command, self, cfg, host, readelf_out, soc, start_address, is_fsbl,
                   is_ram, gdb_args, gdbserver_path, cubeprg_path, search_path,
                   installations, scan_i, spawned, exit_status>>

-----------------------------------------------------------------------------
(* Helpers of runners.core *)

\* ZephyrBinaryRunner.require: MissingProgram unless the program is found
require(program, found) ==
    IF found THEN NoError ELSE Raise("MissingProgram", "required program not found")

\* ZephyrBinaryRunner.check_call: one process, the caller blocks on it
check_call(cmd) == <<cmd>>

\* ZephyrBinaryRunner.run_server_and_client: the server, then the client
run_server_and_client(server, client) == <<server, client>>

-----------------------------------------------------------------------------
(* Process orchestration: lines 371-380 *)

\* line 371: self.require(gdbserver_cmd[0])
RequireServer ==
    /\ pc = "require"
    /\ \E found \in BOOLEAN :
          /\ error' = require(gdbserver_cmd[1], found)
          /\ pc' = IF found THEN "dispatch" ELSE "raised"
    /\ UNCHANGED <<command, self, cfg, host, readelf_out, soc, start_address, is_fsbl,
                   is_ram, gdb_args, gdbserver_cmd, gdbserver_path, cubeprg_path,
                   search_path, installations, scan_i, spawned, exit_status>>

\* the branch taken on the configured debugger in place of the command
Dispatch_on_gdb ==
    /\ pc = "dispatch"
    /\ IF cfg.gdb = None
       THEN /\ spawned' = spawned \o check_call(gdbserver_cmd)
            /\ pc' = "running"
            /\ UNCHANGED error
       ELSE /\ spawned' = spawned \o run_server_and_client(gdbserver_cmd, <<cfg.gdb>> \o gdb_args)
            /\ pc' = "running"
            /\ UNCHANGED error
    /\ UNCHANGED <<command, self, cfg, host, readelf_out, soc, start_address, is_fsbl,
                   is_ram, gdb_args, gdbserver_cmd, gdbserver_path, cubeprg_path,
                   search_path, installations, scan_i, exit_status>>

\* the server started before the debugger is looked at
Dispatch_server_first ==
    /\ pc = "dispatch"
    /\ IF command = "debugserver"
       THEN /\ spawned' = spawned \o check_call(gdbserver_cmd)
            /\ pc' = "running"
            /\ UNCHANGED error
       ELSE IF cfg.gdb = None
       THEN /\ spawned' = spawned \o <<gdbserver_cmd>>
            /\ error' = Raise("RuntimeError", "GDB is required for attach/debug")
            /\ pc' = "raised"
       ELSE /\ spawned' = spawned \o run_server_and_client(gdbserver_cmd, <<cfg.gdb>> \o gdb_args)
            /\ pc' = "running"
            /\ UNCHANGED error
    /\ UNCHANGED <<command, self, cfg, host, readelf_out, soc, start_address, is_fsbl,
                   is_ram, gdb_args, gdbserver_cmd, gdbserver_path, cubeprg_path,
                   search_path, installations, scan_i, exit_status>>

\* "if" in place of "elif" on line 375: debugserver falls through
Dispatch_fall_through ==
    /\ pc = "dispatch"
    /\ LET first == IF command = "debugserver" THEN check_call(gdbserver_cmd) ELSE <<>>
       IN  IF cfg.gdb = None
           THEN /\ spawned' = spawned \o first
                /\ error' = Raise("RuntimeError", "GDB is required for attach/debug")
                /\ pc' = "raised"
           ELSE /\ spawned' = spawned \o first
                               \o run_server_and_client(gdbserver_cmd, <<cfg.gdb>> \o gdb_args)
                /\ pc' = "running"
                /\ UNCHANGED error
    /\ UNCHANGED <<command, self, cfg, host, readelf_out, soc, start_address, is_fsbl,
                   is_ram, gdb_args, gdbserver_cmd, gdbserver_path, cubeprg_path,
                   search_path, installations, scan_i, exit_status>>

\* lines 373-380: the server alone, or the server and the debugger client
Dispatch ==
    /\ pc = "dispatch"
    /\ IF command = "debugserver"
       THEN /\ spawned' = spawned \o check_call(gdbserver_cmd)
            /\ pc' = "running"
            /\ UNCHANGED error
       ELSE IF cfg.gdb = None
       THEN /\ error' = Raise("RuntimeError", "GDB is required for attach/debug")
            /\ pc' = "raised"
            /\ UNCHANGED spawned
       ELSE LET gdb_cmd == <<cfg.gdb>> \o gdb_args
            IN  \E found \in BOOLEAN :
                   IF ~found
                   THEN /\ error' = require(gdb_cmd[1], found)
                        /\ pc' = "raised"
                        /\ UNCHANGED spawned
                   ELSE /\ spawned' = spawned \o run_server_and_client(gdbserver_cmd, gdb_cmd)
                        /\ pc' = "running"
                        /\ UNCHANGED error
    /\ UNCHANGED <<command, self, cfg, host, readelf_out, soc, start_address, is_fsbl,
                   is_ram, gdb_args, gdbserver_cmd, gdbserver_path, cubeprg_path,
                   search_path, installations, scan_i, exit_status>>

\* the spawned processes end and their exit status is propagated
Exit ==
    /\ pc = "running"
    /\ \E status \in {0, 1} : exit_status' = status
    /\ pc' = "done"
    /\ UNCHANGED <<command, self, cfg, host, error, readelf_out, soc, start_address,
                   is_fsbl, is_ram, gdb_args, gdbserver_cmd, gdbserver_path,
                   cubeprg_path, search_path, installations, scan_i, spawned>>

-----------------------------------------------------------------------------
(* Initial states *)

DEFAULT_MCUBOOT_OFFSET == <<"0x08040000">>

\* __init__: self._mcuboot_offset = mcuboot_offset or '0x08040000'
init_mcuboot_offset(arg) == IF arg = None THEN DEFAULT_MCUBOOT_OFFSET ELSE arg

\* __init__ from the parsed arguments
Runners ==
    { [swd |-> swd,
       gdb_port |-> STLINK_GDB_SERVER_DEFAULT_PORT,
       stlink_serial |-> serial,
       ap_id |-> 0,
       external_loader |-> loader,
       do_external_init |-> external_init,
       two_boot_stage |-> FALSE,
       mcuboot_offset |-> init_mcuboot_offset(offset)] :
         swd \in BOOLEAN,
         serial \in {None, <<"066DFF">>},
         loader \in {None, <<"MX66UW1G45G_STM32N6570-DK.stldr">>},
         external_init \in BOOLEAN,
         offset \in {None, <<"0x08100000">>} }

Configs ==
    { [elf_file |-> <<"build", "app", "zephyr", "zephyr.elf">>,
       build_dir |-> <<"build", "app">>,
       gdb |-> gdb] : gdb \in {None, <<"arm-none-eabi-gdb">>} }

Host(platform, which_gdbserv, which_cubeprg, is_dir, entries) ==
    [platform |-> platform, which_gdbserv |-> which_gdbserv,
     which_cubeprg |-> which_cubeprg, tools_is_dir |-> is_dir,
     tools_entries |-> entries]

OnPath_gdbserv == <<"/", "usr", "local", "bin", "ST-LINK_gdbserver">>

OnPath_cubeprg == <<"/", "usr", "local", "cubeprg", "bin", "STM32_Programmer_CLI">>

\* the hosts a debug session is run on
SessionHosts ==
    {Host("Linux", OnPath_gdbserv, OnPath_cubeprg, FALSE, <<>>),
     Host("Linux", OnPath_gdbserv, None, TRUE,
          <<"stm32cubeclt_1.9.9", "stm32cubeclt_2.1.0">>),
     Host("Windows", None, None, TRUE, <<"stm32cubeide_1.9.0">>),
     Host("Darwin", None, None, FALSE, <<>>),
     Host("FreeBSD", None, None, FALSE, <<>>)}

\* the listings of the tools folder: names without repetition, in the order
\* iterdir() yields them
Listings ==
    {l \in UNION {[1..k -> FolderNames] : k \in 0..MaxInstalls} :
        \A i, j \in DOMAIN l : i # j => l[i] # l[j]}

\* the hosts the locator is run on
LocatorHosts ==
    {Host(platform, on_path[1], on_path[2], is_dir, IF is_dir THEN l ELSE <<>>) :
        platform \in {"Linux", "Windows", "Darwin", "FreeBSD"},
        on_path \in {<<OnPath_gdbserv, OnPath_cubeprg>>, <<OnPath_gdbserv, None>>,
                     <<None, None>>},
        is_dir \in BOOLEAN,
        l \in Listings}

InitLocals ==
    /\ error = NoError
    /\ readelf_out = Readelf(FALSE, FALSE, <<>>)
    /\ soc = Chars_unknown
    /\ start_address = 0
    /\ is_fsbl = FALSE
    /\ is_ram = FALSE
    /\ gdb_args = <<>>
    /\ gdbserver_cmd = <<>>
    /\ gdbserver_path = None
    /\ cubeprg_path = None
    /\ search_path = os_search_path("")
    /\ installations = <<>>
    /\ scan_i = 0
    /\ spawned = <<>>
    /\ exit_status = -1

Init ==
    /\ command \in {"attach", "debug", "debugserver", "flash"}
    /\ self \in Runners
    /\ cfg \in Configs
    /\ host \in SessionHosts
    /\ pc = "do_run"
    /\ InitLocals

Next ==
    \/ DoRun
    \/ Detect
    \/ LocateWhich
    \/ ScanStep
    \/ ScanDone
    \/ Plan
    \/ Options
    \/ RequireServer
    \/ Dispatch
    \/ Exit

Spec == Init /\ [][Next]_vars

\* _get_stm32cubeclt_paths called on its own
InitLocate ==
    /\ command = "debugserver"
    /\ self \in {r \in Runners : r.swd /\ r.stlink_serial = None /\ r.external_loader = None
                                 /\ ~r.do_external_init
                                 /\ r.mcuboot_offset = DEFAULT_MCUBOOT_OFFSET}
    /\ cfg \in {c \in Configs : c.gdb = None}
    /\ host \in LocatorHosts
    /\ pc = "locate"
    /\ InitLocals

NextLocate ==
    \/ LocateWhich
    \/ ScanStep
    \/ ScanDone

SpecLocate == InitLocate /\ [][NextLocate]_vars

-----------------------------------------------------------------------------
(* Vocabulary of the properties *)

HasFlag(cmd, flag) == \E i \in DOMAIN cmd : cmd[i] = Text(flag)

FlagCount(cmd, flags) ==
    Cardinality({i \in DOMAIN cmd : \E f \in flags : cmd[i] = Text(f)})

\* the debugger commands of an argument list: what follows each "-ex"
RECURSIVE ExCommands(_)
ExCommands(args) ==
    IF Len(args) < 2 THEN <<>>
    ELSE IF args[1] = Text("-ex")
    THEN <<args[2]>> \o ExCommands(SubSeq(args, 3, Len(args)))
    ELSE ExCommands(Tail(args))

\* the kind of directive a debugger command is
Directive(c) ==
    CASE c[1] = "target remote :" -> "connect"
      [] c[1] \in {"load", "load "} -> "load"
      [] c[1] \in {"hbreak boot_go", "break main"} -> "breakpoint"
      [] c[1] = "continue" -> "continue"
      [] c[1] = "add-symbol-file " -> "symbol-file"
      [] OTHER -> "setting"

Directives(cmds) == [i \in DOMAIN cmds |-> Directive(cmds[i])]

NotSetting(c) == Directive(c) # "setting"

ConnectCommand == <<"target remote :", ToString(self.gdb_port)>>

\* the entry point has been read and classified
Detected == gdb_args # <<>>

\* the branch of the plan has been taken
Planned == gdbserver_cmd # <<>>

\* the execution mode of the specification's classifier, with the first-stage
\* window written as the range 0x34180000..0x3418FFFF
ExecutionMode(address, family) ==
    IF FSBL_BASE <= address /\ address <= FSBL_BASE + (LOW_HALF - 1) THEN "FSBL"
    ELSE IF RAM_BASE <= address /\ address < FSBL_BASE THEN "RAM"
    ELSE IF family = Chars_STM32N6 THEN "FlashChained"
    ELSE "Unknown"

Mode == ExecutionMode(start_address, soc)

Field_08040000 == <<"0", "8", "0", "4", "0", "0", "0", "0">>

Field_34185000 == <<"3", "4", "1", "8", "5", "0", "0", "0">>

EntryIs(field) == readelf_out = Readelf(TRUE, TRUE, field)

\* readelf failed, printed no entry point, or printed no number
EntryUnreadable ==
    \/ ~readelf_out.ok
    \/ ~readelf_out.has_entry
    \/ readelf_out.field = <<>>
    \/ \E i \in DOMAIN readelf_out.field : readelf_out.field[i] \notin HexDigits

IsServer(argv) == argv[1] = gdbserver_path

IsClient(argv) == cfg.gdb # None /\ argv[1] = cfg.gdb

Count(seq, P(_)) == Cardinality({i \in DOMAIN seq : P(seq[i])})

-----------------------------------------------------------------------------
(* Properties *)

\* C1: the execution mode is a first-match-wins function of the entry point
\* and the SoC family alone: the is_fsbl and is_ram tests agree with the FSBL
\* window 0x34180000..0x3418FFFF and the RAM range 0x34000000..0x3417FFFF for
\* every command, and a non-attach session takes the two boot stage plan
\* exactly when the mode is FlashChained (so 0x08040000 is FlashChained on
\* STM32N6 and Unknown on any other family).
C1_Classification ==
    Detected =>
        /\ is_fsbl = (Mode = "FSBL")
        /\ is_ram = (Mode = "RAM")
        /\ (Planned /\ command # "attach") =>
               (HasFlag(gdbserver_cmd, "--attach") <=> Mode = "FlashChained")
        /\ (Planned /\ command # "attach" /\ EntryIs(Field_08040000)) =>
               /\ start_address = HexInt(Field_08040000)
               /\ soc = Chars_STM32N6 => plan_branch(command, is_fsbl, is_ram, soc) = "chained"
               /\ soc # Chars_STM32N6 =>
                      /\ Mode = "Unknown"
                      /\ plan_branch(command, is_fsbl, is_ram, soc) = "direct"

C1_Witness ==
    /\ EntryIs(Field_08040000)
    /\ soc = Chars_STM32N6
    /\ command = "debug"
    /\ pc = "done"
    /\ HasFlag(gdbserver_cmd, "--attach")

\* C2: with command debugserver only the server process is started, in every
\* mode: no debugger client is spawned and no debugger command is passed to
\* any process.
C2_ServerOnly ==
    command = "debugserver" =>
        /\ \A i \in DOMAIN spawned :
              /\ spawned[i] = gdbserver_cmd
              /\ ~IsClient(spawned[i])
              /\ ExCommands(spawned[i]) = <<>>
        /\ pc \in {"running", "done"} => spawned = <<gdbserver_cmd>>

C2_Witness ==
    /\ command = "debugserver"
    /\ Mode = "FlashChained"
    /\ cfg.gdb # None
    /\ pc = "done"
    /\ spawned = <<gdbserver_cmd>>

\* C3: once the plan is made the server arguments hold exactly one of --attach
\* and --initialize-reset, and it is --attach exactly when the command is
\* attach or the mode is FlashChained.
C3_ServerFlag ==
    Planned =>
        /\ FlagCount(gdbserver_cmd, {"--attach", "--initialize-reset"}) = 1
        /\ HasFlag(gdbserver_cmd, "--attach") <=>
               (command = "attach" \/ Mode = "FlashChained")

C3_Witness ==
    /\ command = "debug"
    /\ Mode = "FlashChained"
    /\ pc = "done"
    /\ HasFlag(gdbserver_cmd, "--attach")
    /\ ~HasFlag(gdbserver_cmd, "--initialize-reset")

\* C4: whenever the invocation has raised an error (missing external loader,
\* missing MCUboot ELF, no debugger configured, missing server or client
\* executable, no toolchain found), no process has been spawned.
C4_ErrorBeforeSpawn ==
    error # NoError => (spawned = <<>> /\ pc = "raised")

C4_Witness ==
    /\ error = Raise("RuntimeError", "GDB is required for attach/debug")
    /\ command = "debug"
    /\ Mode = "FlashChained"
    /\ spawned = <<>>

\* the version a matching folder name states, as the triple of its numbers
VersionOf(name) ==
    LET m == CUBECLT_FLDR_RE_match(name)
    IN  <<DecInt(m[1]), DecInt(m[2]), DecInt(m[3])>>

\* the order of (MAJOR, MINOR, PATCH) triples
LexLess(a, b) ==
    \/ a[1] < b[1]
    \/ a[1] = b[1] /\ a[2] < b[2]
    \/ a[1] = b[1] /\ a[2] = b[2] /\ a[3] < b[3]

\* the folder the scan selected
SelectedInstall == gdbserver_path[Len(search_path.dir) + 1]

ScanSelected == pc = "located" /\ installations # <<>>

\* C5: the linearized value orders the installations found by a scan as their
\* (MAJOR, MINOR, PATCH) triples do, and the scan selects the installation
\* with the highest version.
C5_HighestVersionSelected ==
    ScanSelected =>
        /\ \A i, j \in DOMAIN installations :
              (installations[i][1] < installations[j][1]) <=>
                  LexLess(VersionOf(installations[i][2]), VersionOf(installations[j][2]))
        /\ \A i \in DOMAIN installations :
              ~LexLess(VersionOf(SelectedInstall), VersionOf(installations[i][2]))

\* C6 as stated: attach to an image entered at 0x34185000 is FSBL, the server
\* gets --attach, and the debugger commands are [connect, load].
C6_AttachConnectLoad ==
    (command = "attach" /\ Planned /\ EntryIs(Field_34185000)) =>
        /\ start_address = HexInt(Field_34185000)
        /\ Mode = "FSBL" /\ is_fsbl
        /\ HasFlag(gdbserver_cmd, "--attach")
        /\ Directives(ExCommands(gdb_args)) = <<"connect", "load">>

\* C6 amended: attach to an image entered at 0x34185000 is FSBL, the server
\* gets --attach, and the debugger command list is [connect] alone.
C6_AttachConnectOnly ==
    (command = "attach" /\ Planned /\ EntryIs(Field_34185000)) =>
        /\ start_address = HexInt(Field_34185000)
        /\ Mode = "FSBL" /\ is_fsbl
        /\ HasFlag(gdbserver_cmd, "--attach")
        /\ Directives(ExCommands(gdb_args)) = <<"connect">>

C6_Witness ==
    /\ command = "attach"
    /\ EntryIs(Field_34185000)
    /\ pc = "done"
    /\ Len(spawned) = 2
    /\ ExCommands(spawned[2]) = <<ConnectCommand>>

\* C7: with command attach, in every mode, the server gets --attach and no
\* --initialize-reset, and the debugger is given the single command
\* "target remote :<port>" (no load, breakpoint or continue), which is also
\* all the spawned client receives.
C7_AttachPlan ==
    (command = "attach" /\ Planned) =>
        /\ HasFlag(gdbserver_cmd, "--attach")
        /\ ~HasFlag(gdbserver_cmd, "--initialize-reset")
        /\ gdb_args = <<Text("-ex"), ConnectCommand, cfg.elf_file>>
        /\ \A i \in DOMAIN spawned :
              IsClient(spawned[i]) => ExCommands(spawned[i]) = <<ConnectCommand>>

C7_Witness ==
    /\ command = "attach"
    /\ Mode = "FlashChained"
    /\ pc = "done"
    /\ Len(spawned) = 2
    /\ IsClient(spawned[2])

\* C8: in FlashChained mode with a command other than attach the debugger
\* commands are, in order: connect, hardware breakpoint at boot_go, continue,
\* add-symbol-file of the application at the MCUboot offset, breakpoint at
\* main, continue; none of them loads code onto the target.
C8_ChainedSequence ==
    (command # "attach" /\ Planned /\ pc # "raised" /\ Mode = "FlashChained") =>
        /\ SelectSeq(ExCommands(gdb_args), NotSetting) =
               << ConnectCommand,
                  Text("hbreak boot_go"),
                  Text("continue"),
                  <<"add-symbol-file ">> \o cfg.elf_file \o <<" ">> \o self.mcuboot_offset,
                  Text("break main"),
                  Text("continue") >>
        /\ \A i \in DOMAIN ExCommands(gdb_args) :
              Directive(ExCommands(gdb_args)[i]) # "load"

\* C9: at most one server and at most one client are ever spawned, the server
\* first; a client only for attach and debug; an invocation that ends without
\* an error has spawned exactly one server, and exactly one client unless the
\* command is debugserver.
C9_ProcessCounts ==
    /\ Count(spawned, IsServer) <= 1
    /\ Count(spawned, IsClient) <= 1
    /\ Len(spawned) = Count(spawned, IsServer) + Count(spawned, IsClient)
    /\ spawned # <<>> => (IsServer(spawned[1]) /\ spawned[1] = gdbserver_cmd)
    /\ Count(spawned, IsClient) = 1 => command \in {"attach", "debug"}
    /\ (pc \in {"running", "done"} /\ error = NoError) =>
           /\ Count(spawned, IsServer) = 1
           /\ Count(spawned, IsClient) = IF command = "debugserver" THEN 0 ELSE 1

C9_Witness ==
    /\ command = "debug"
    /\ pc = "done"
    /\ error = NoError
    /\ Len(spawned) = 2
    /\ IsServer(spawned[1])
    /\ IsClient(spawned[2])

\* C10: an unreadable entry point gives start_address 0 without an error,
\* and for every SoC family a session other than attach then uses the direct
\* plan: --initialize-reset, connect, load of the binary.
C10_UnreadableEntryDirectPlan ==
    (Detected /\ EntryUnreadable) =>
        /\ start_address = 0
        /\ error # Raise("RuntimeError", "MCUboot ELF not found")
        /\ (Planned /\ command # "attach") =>
               /\ HasFlag(gdbserver_cmd, "--initialize-reset")
               /\ ~HasFlag(gdbserver_cmd, "--attach")
               /\ ExCommands(gdb_args) = <<ConnectCommand, <<"load ">> \o cfg.elf_file>>

=============================================================================
